---- MODULE Spec2Model ----
(***************************************************************************)
(* Model of the Gemini agentic-vision experiment harness:                  *)
(*   compare_results.py : extract_number, analyze_results, report rows     *)
(*   run_experiment.py  : TESTS, run_single_test, main                     *)
(*   gemini_client.py   : run_vision_query (the shape of its return value) *)
(*                                                                         *)
(* A text is a sequence of one-character strings.  An optional integer is  *)
(* a record [tag, val]: None has tag "none", the integer n is Some(n).      *)
(***************************************************************************)
EXTENDS Integers, Sequences, FiniteSets, TLC

VARIABLES
    text,         \* extract_number: the argument
    extracted,    \* extract_number: the returned value (Unset before the call)
    all_results,  \* the list of TestRun records (the content of the results file)
    comparison,   \* analyze_results: the returned mapping, in insertion order
    report,       \* generate_report: the rows of the summary table
    TESTS,        \* run_experiment: the test definitions, by test id
    args,         \* run_experiment: the parsed command line
    modes,        \* run_experiment.main: the code_execution settings to run
    test_ids,     \* run_experiment.main: the test ids to run
    mi,           \* main: index into modes of the running outer loop
    ti,           \* main: index into test_ids of the running inner loop
    image_i,      \* run_single_test: i, the number of images handled so far
    test_results, \* run_single_test: results, the entries recorded so far
    env,          \* what the file system and the API did: per finished run
                  \* (runs) and for the running one (cur), one outcome per image
    pc            \* position of the running program

extractVars == <<text, extracted>>
compareVars == <<comparison, report>>
runVars == <<TESTS, args, modes, test_ids, mi, ti, image_i, test_results, env>>
vars == <<text, extracted, all_results, comparison, report, TESTS, args, modes,
          test_ids, mi, ti, image_i, test_results, env, pc>>

(***************************************************************************)
(* Values                                                                  *)
(***************************************************************************)
None == [tag |-> "none", val |-> 0]
Some(n) == [tag |-> "int", val |-> n]

\* truth value of an optional integer
TruthyInt(x) == x # None /\ x.val # 0
ValueError == [tag |-> "raise", val |-> 0]
Unset == [tag |-> "unset", val |-> 0]

Digits == <<"0", "1", "2", "3", "4", "5", "6", "7", "8", "9">>
IsDigit(c) == \E d \in 1..10 : Digits[d] = c
DigitVal(c) == (CHOOSE d \in 1..10 : Digits[d] = c) - 1

\* \s of the re module, restricted to the whitespace the texts use
IsSpace(c) == c \in {" ", "\n", "\t"}

UpperChars == <<"A", "B", "C", "D", "E", "F", "G", "H", "I", "J", "K", "L", "M",
                "N", "O", "P", "Q", "R", "S", "T", "U", "V", "W", "X", "Y", "Z">>
LowerChars == <<"a", "b", "c", "d", "e", "f", "g", "h", "i", "j", "k", "l", "m",
                "n", "o", "p", "q", "r", "s", "t", "u", "v", "w", "x", "y", "z">>

\* str.lower() on one character, and on a text
LowerChar(c) ==
    IF \E k \in 1..26 : UpperChars[k] = c
    THEN LowerChars[CHOOSE k \in 1..26 : UpperChars[k] = c]
    ELSE c

Lower(t) == [k \in 1..Len(t) |-> LowerChar(t[k])]

\* int(s) for a string of decimal digits; int("") raises
RECURSIVE DigitsValue(_)
DigitsValue(s) ==
    IF s = <<>> THEN 0
    ELSE 10 * DigitsValue(SubSeq(s, 1, Len(s) - 1)) + DigitVal(s[Len(s)])

ParseInt(s) == IF s = <<>> THEN ValueError ELSE Some(DigitsValue(s))

(***************************************************************************)
(* The regular expressions of extract_number.  A pattern is a sequence of  *)
(* elements, matched left to right with the re module's greedy,            *)
(* backtracking semantics:                                                 *)
(*   Lit(s)        the literal characters of s                             *)
(*   Opt(c)        c?                                                      *)
(*   Rep(cls, min) cls+ (min = 1) or cls* (min = 0), not captured          *)
(*   Group(min)    (\d+), group 1                                          *)
(*   Alt(ss)       (?:s1|s2), alternatives tried in order                  *)
(*   Bol, Eol      ^ and $ (no re.MULTILINE)                               *)
(***************************************************************************)
Lit(s) == [kind |-> "lit", s |-> s, cls |-> "", min |-> 0]
Opt(c) == [kind |-> "opt", s |-> <<c>>, cls |-> "", min |-> 0]
Rep(cls, min) == [kind |-> "rep", s |-> <<>>, cls |-> cls, min |-> min]
Group(min) == [kind |-> "group", s |-> <<>>, cls |-> "digit", min |-> min]
Alt(ss) == [kind |-> "alt", s |-> ss, cls |-> "", min |-> 0]
Bol == [kind |-> "bol", s |-> <<>>, cls |-> "", min |-> 0]
Eol == [kind |-> "eol", s |-> <<>>, cls |-> "", min |-> 0]

InClass(cls, c) ==
    CASE cls = "digit" -> IsDigit(c)
      [] cls = "space" -> IsSpace(c)
      [] cls = "sep" -> c = ":" \/ IsSpace(c)      \* [:\s]
      [] OTHER -> FALSE

\* the literal s occurs in t at position p
LitAt(t, p, s) ==
    /\ p + Len(s) - 1 <= Len(t)
    /\ \A k \in 1..Len(s) : t[p + k - 1] = s[k]

\* length of the longest run of characters of class cls in t from position p
RECURSIVE RunLen(_, _, _)
RunLen(t, p, cls) ==
    IF p <= Len(t) /\ InClass(cls, t[p]) THEN 1 + RunLen(t, p + 1, cls) ELSE 0

NoMatch == [tag |-> "nomatch", val |-> 0]

\* MatchFrom(t, p, pat, k, cap): match elements k.. of pat against t at position
\* p; cap is group 1 so far.  The result is group 1 as an optional integer
\* (int() applied), or NoMatch.  Greedy: a repetition tries its longest run
\* first and gives characters back one at a time.
RECURSIVE MatchFrom(_, _, _, _, _)
RECURSIVE MatchRep(_, _, _, _, _, _)
MatchRep(t, p, pat, k, cap, n) ==
    LET e == pat[k]
        newcap == IF e.kind = "group" THEN SubSeq(t, p, p + n - 1) ELSE cap
        r == MatchFrom(t, p + n, pat, k + 1, newcap)
    IN  IF n < e.min THEN NoMatch
        ELSE IF r # NoMatch THEN r
        ELSE IF n = 0 THEN NoMatch
        ELSE MatchRep(t, p, pat, k, cap, n - 1)

RECURSIVE MatchAlt(_, _, _, _, _, _)
MatchAlt(t, p, pat, k, cap, a) ==
    LET e == pat[k] IN
    IF a > Len(e.s) THEN NoMatch
    ELSE LET r == IF LitAt(t, p, e.s[a])
                  THEN MatchFrom(t, p + Len(e.s[a]), pat, k + 1, cap)
                  ELSE NoMatch
         IN  IF r # NoMatch THEN r ELSE MatchAlt(t, p, pat, k, cap, a + 1)

MatchFrom(t, p, pat, k, cap) ==
    IF k > Len(pat) THEN ParseInt(cap)
    ELSE LET e == pat[k] IN
      CASE e.kind = "lit" ->
             IF LitAt(t, p, e.s) THEN MatchFrom(t, p + Len(e.s), pat, k + 1, cap)
             ELSE NoMatch
        [] e.kind = "opt" ->
             LET r == IF LitAt(t, p, e.s)
                      THEN MatchFrom(t, p + 1, pat, k + 1, cap)
                      ELSE NoMatch
             IN  IF r # NoMatch THEN r ELSE MatchFrom(t, p, pat, k + 1, cap)
        [] e.kind \in {"rep", "group"} ->
             MatchRep(t, p, pat, k, cap, RunLen(t, p, e.cls))
        [] e.kind = "alt" -> MatchAlt(t, p, pat, k, cap, 1)
        [] e.kind = "bol" ->
             IF p = 1 THEN MatchFrom(t, p, pat, k + 1, cap) ELSE NoMatch
        [] e.kind = "eol" ->
             IF p = Len(t) + 1 \/ (p = Len(t) /\ t[p] = "\n")
             THEN MatchFrom(t, p, pat, k + 1, cap)
             ELSE NoMatch

\* re.search(pattern, t): the match at the leftmost position that has one
RECURSIVE SearchFrom(_, _, _)
SearchFrom(t, pat, p) ==
    IF p > Len(t) + 1 THEN NoMatch
    ELSE LET r == MatchFrom(t, p, pat, 1, <<>>)
         IN  IF r # NoMatch THEN r ELSE SearchFrom(t, pat, p + 1)

\* mutant: re.match in place of re.search (a match at the start of t only)
re_match(pat, t) == MatchFrom(t, 1, pat, 1, <<>>)

re_search(pat, t) == SearchFrom(t, pat, 1)

\* (\d+)\s*<word>
NumberThen(word) == <<Group(1), Rep("space", 0), Lit(word)>>
\* mutant: <word>[:\s]+(\d*), a group that may be empty
WordThenDigits(word) == <<Lit(word), Rep("sep", 1), Group(0)>>

\* <word>[:\s]+(\d+)
WordThenNumber(word) == <<Lit(word), Rep("sep", 1), Group(1)>>

\* mutant: the total pattern declared before the coin pattern
patterns_total_first == <<
    NumberThen(<<"f", "i", "n", "g", "e", "r">>) \o <<Opt("s")>>,
    WordThenNumber(<<"t", "o", "t", "a", "l">>),
    NumberThen(<<"c", "o", "i", "n">>) \o <<Opt("s")>>,
    NumberThen(<<"r", "e", "b", "a", "r">>),
    NumberThen(<<"p", "i", "e", "c", "e">>) \o <<Opt("s")>>,
    NumberThen(<<"i", "t", "e", "m">>) \o <<Opt("s")>>,
    WordThenNumber(<<"c", "o", "u", "n", "t">>),
    <<Lit(<<"t", "h", "e", "r", "e", " ">>),
      Alt(<<(<<"a", "r", "e">>), (<<"i", "s">>)>>), Lit(<<" ">>), Group(1)>>,
    <<Bol, Group(1), Eol>> >>

patterns == <<
    NumberThen(<<"f", "i", "n", "g", "e", "r">>) \o <<Opt("s")>>,
    NumberThen(<<"c", "o", "i", "n">>) \o <<Opt("s")>>,
    NumberThen(<<"r", "e", "b", "a", "r">>),
    NumberThen(<<"p", "i", "e", "c", "e">>) \o <<Opt("s")>>,
    NumberThen(<<"i", "t", "e", "m">>) \o <<Opt("s")>>,
    WordThenNumber(<<"c", "o", "u", "n", "t">>),
    WordThenNumber(<<"t", "o", "t", "a", "l">>),
    <<Lit(<<"t", "h", "e", "r", "e", " ">>),
      Alt(<<(<<"a", "r", "e">>), (<<"i", "s">>)>>), Lit(<<" ">>), Group(1)>>,
    <<Bol, Group(1), Eol>> >>

\* for pattern in patterns: match = re.search(pattern, text.lower()) ...
RECURSIVE FirstMatch(_, _, _)
FirstMatch(pats, t, k) ==
    IF k > Len(pats) THEN None
    ELSE LET m == re_search(pats[k], t)
         IN  IF m # NoMatch THEN m ELSE FirstMatch(pats, t, k + 1)

extract_number(t) == FirstMatch(patterns, Lower(t), 1)

(***************************************************************************)
(* Response texts.  A text is the concatenation of at most MaxWords words  *)
(* of the lexicon (a separator is a word of its own).                      *)
(***************************************************************************)
MaxWords == 3

Lexicon == {
    <<"5", " ", "f", "i", "n", "g", "e", "r", "s">>,
    <<"2", " ", "f", "i", "n", "g", "e", "r", "s">>,
    <<"3", " ", "c", "o", "i", "n", "s">>,
    <<"5", " ", "c", "o", "i", "n", "s">>,
    <<"2", " ", "r", "e", "b", "a", "r">>,
    <<"6", "p", "i", "e", "c", "e">>,
    <<"4", " ", "i", "t", "e", "m", "s">>,
    <<"C", "o", "u", "n", "t">>,
    <<"t", "o", "t", "a", "l", ":", " ", "9">>,
    <<"t", "h", "e", "r", "e", " ", "a", "r", "e", " ", "1", "2">>,
    <<"7">>,
    <<":">>,
    <<" ">>,
    <<"\n">> }

RECURSIVE Flatten(_)
Flatten(ws) == IF ws = <<>> THEN <<>> ELSE Head(ws) \o Flatten(Tail(ws))

Texts == { Flatten(ws) : ws \in UNION { [1..n -> Lexicon] : n \in 0..MaxWords } }

(***************************************************************************)
(* SpecExtract: extract_number applied to one text                         *)
(***************************************************************************)
\* run_experiment is not running
NoRun ==
    /\ TESTS = <<>>
    /\ args = <<>>
    /\ modes = <<>>
    /\ test_ids = <<>>
    /\ mi = 0 /\ ti = 0 /\ image_i = 0
    /\ test_results = <<>>
    /\ env = <<>>

InitExtract ==
    /\ text \in Texts
    /\ extracted = Unset
    /\ all_results = <<>>
    /\ comparison = <<>>
    /\ report = <<>>
    /\ NoRun
    /\ pc = "extract"

ExtractNumber ==
    /\ pc = "extract"
    /\ extracted' = extract_number(text)
    /\ pc' = "extracted"
    /\ UNCHANGED <<text, all_results, compareVars, runVars>>

NextExtract == ExtractNumber

SpecExtract == InitExtract /\ [][NextExtract]_vars

(***************************************************************************)
(* Phrases of a text, stated without the matcher: an occurrence is         *)
(* <<start, first, last>>, the phrase starting at start with its numeral   *)
(* at first..last.                                                         *)
(***************************************************************************)
Pos(t) == 1..Len(t)
AllIn(t, a, b, cls) == \A k \in a..b : InClass(cls, t[k])

Word(k) ==
    CASE k = 1 -> <<"f", "i", "n", "g", "e", "r">>
      [] k = 2 -> <<"c", "o", "i", "n">>
      [] k = 3 -> <<"r", "e", "b", "a", "r">>
      [] k = 4 -> <<"p", "i", "e", "c", "e">>
      [] k = 5 -> <<"i", "t", "e", "m">>
      [] k = 6 -> <<"c", "o", "u", "n", "t">>
      [] k = 7 -> <<"t", "o", "t", "a", "l">>
      [] k = 8 -> <<"t", "h", "e", "r", "e", " ", "a", "r", "e", " ">>
      [] OTHER -> <<"t", "h", "e", "r", "e", " ", "i", "s", " ">>

\* the numerals of t: the maximal runs of digits, as <<first, last>>
Numerals(t) ==
    { <<i, CHOOSE j \in i..Len(t) :
               AllIn(t, i, j, "digit") /\ (j = Len(t) \/ ~IsDigit(t[j + 1]))>> :
        i \in { x \in Pos(t) : IsDigit(t[x]) /\ (x = 1 \/ ~IsDigit(t[x - 1])) } }

WordStarts(t, w) == { x \in Pos(t) : LitAt(t, x, w) }

\* a numeral (one of nums), optional whitespace, the word
NumberWordOcc(t, nums, w) ==
    { <<n[1], n[1], n[2]>> : n \in
        { x \in nums :
            \E s \in WordStarts(t, w) : x[2] < s /\ AllIn(t, x[2] + 1, s - 1, "space") } }

\* the word, one or more of colon and whitespace, a numeral
WordNumberOcc(t, nums, w) ==
    { <<sn[1], sn[2][1], sn[2][2]>> : sn \in
        { x \in WordStarts(t, w) \X nums :
            /\ x[1] + Len(w) < x[2][1]
            /\ AllIn(t, x[1] + Len(w), x[2][1] - 1, "sep") } }

\* the word (ending in its single space), a numeral
WordSpaceNumberOcc(t, nums, w) ==
    { <<sn[1], sn[2][1], sn[2][2]>> : sn \in
        { x \in WordStarts(t, w) \X nums : x[1] + Len(w) = x[2][1] } }

\* the whole text is a numeral, but for one final newline
BareNumberOcc(t, nums) ==
    { <<1, n[1], n[2]>> : n \in
        { x \in nums :
            /\ x[1] = 1
            /\ x[2] = Len(t) \/ (x[2] = Len(t) - 1 /\ t[Len(t)] = "\n") } }

\* the occurrences of pattern k's phrase in t, whose numerals are nums
OccIn(t, nums, k) ==
    CASE k \in 1..5 -> NumberWordOcc(t, nums, Word(k))
      [] k \in 6..7 -> WordNumberOcc(t, nums, Word(k))
      [] k = 8 -> WordSpaceNumberOcc(t, nums, Word(8)) \cup WordSpaceNumberOcc(t, nums, Word(9))
      [] OTHER -> BareNumberOcc(t, nums)

Occ(t, k) == OccIn(t, Numerals(t), k)

\* the leftmost occurrence
Leftmost(occ) == CHOOSE x \in occ : \A y \in occ : x[1] <= y[1]

NumberAt(t, o) == DigitsValue(SubSeq(t, o[2], o[3]))

LeftmostNumber(t, k) == NumberAt(t, Leftmost(Occ(t, k)))

ExpectedIn(t, nums) ==
    IF \A k \in 1..9 : OccIn(t, nums, k) = {} THEN None
    ELSE Some(NumberAt(t, Leftmost(OccIn(t, nums,
             CHOOSE k \in 1..9 : /\ OccIn(t, nums, k) # {}
                                 /\ \A h \in 1..(k - 1) : OccIn(t, nums, h) = {}))))

Expected(t) == ExpectedIn(t, Numerals(t))

\* the phrases "<n> <w>s" of t: a numeral, one space, the word w and an s
Phrases(t, w) ==
    { o \in NumberWordOcc(t, Numerals(t), w) :
        LitAt(t, o[3] + 1, <<" ">> \o w \o <<"s">>) }

HasPhrase(t, n, w) == \E o \in Phrases(t, w) : NumberAt(t, o) = n

\* t holds the text s, not followed by a further digit
HasText(t, s) ==
    \E p \in Pos(t) :
        LitAt(t, p, s) /\ (p + Len(s) > Len(t) \/ ~IsDigit(t[p + Len(s)]))

TotalNine == <<"t", "o", "t", "a", "l", ":", " ", "9">>
Done == pc = "extracted"

(***************************************************************************)
(* C1: extract_number returns the integer captured by the first pattern,   *)
(* in declaration order, that matches anywhere in the lower-cased text     *)
(* (wherever lower-priority patterns match); when the leftmost coin phrase *)
(* is "3 coins" and there is no finger phrase the result is 3, also with   *)
(* "total: 9" earlier in the text.                                         *)
(***************************************************************************)
C1_FirstPatternWins ==
    Done =>
        LET t == Lower(text) IN
        /\ extracted = Expected(t)
        /\ ( /\ Occ(t, 1) = {}
             /\ Occ(t, 2) # {}
             /\ LeftmostNumber(t, 2) = 3
             /\ HasText(text, TotalNine) )
           => extracted = Some(3)

\* C1 witness: "total: 9" comes before "3 coins" and 3 is returned
C1_Witness ==
    /\ Done
    /\ text = TotalNine \o <<" ">> \o <<"3", " ", "c", "o", "i", "n", "s">>
    /\ extracted = Some(3)

\* C1 as stated: any text with "3 coins" and "total: 9" and no finger phrase
\* yields 3
C1_AsStated ==
    ( /\ Done
      /\ HasPhrase(text, 3, Word(2))
      /\ HasText(text, TotalNine)
      /\ Occ(Lower(text), 1) = {} )
    => extracted = Some(3)

(***************************************************************************)
(* C2: for a text with a phrase "<N> fingers" extract_number returns the   *)
(* numeral of the leftmost numeral-whitespace-finger phrase of the text,   *)
(* which is N when no other finger phrase precedes it.                     *)
(***************************************************************************)
C2_LeftmostFingers ==
    ( Done /\ Phrases(text, Word(1)) # {} )
    => extracted = Some(LeftmostNumber(Lower(text), 1))

\* C2 witness: "5 fingers" after a bare number and before a total
C2_Witness ==
    /\ Done
    /\ text = <<"7">> \o <<" ">> \o <<"5", " ", "f", "i", "n", "g", "e", "r", "s">>
    /\ extracted = Some(5)

\* C2 as stated: every "<N> fingers" phrase of the text gives the result N
C2_AsStated ==
    Done => \A o \in Phrases(text, Word(1)) : extracted = Some(NumberAt(text, o))

(***************************************************************************)
(* C3: extract_number returns an integer or None for every text, the empty *)
(* one included, and None for every text without a digit.                  *)
(***************************************************************************)
C3_TotalAndAbsent ==
    Done =>
        /\ extracted.tag \in {"int", "none"}
        /\ (\A k \in Pos(text) : ~IsDigit(text[k])) => extracted = None

\* C3 witness: "Count: ", a non-empty text without a digit
C3_Witness ==
    /\ Done
    /\ text = <<"C", "o", "u", "n", "t">> \o <<":">> \o <<" ">>
    /\ extracted = None

(***************************************************************************)
(* Records.  A dict is a record; d.get(k, default) reads a key that may be *)
(* missing.                                                                *)
(***************************************************************************)
Get(d, k, default) == IF k \in DOMAIN d THEN d[k] ELSE default

Str(s) == [tag |-> "str", val |-> s]

\* run_vision_query's two return shapes
SuccessResponse(txt, code, imgs) ==
    [success |-> TRUE, text |-> txt, code_executed |-> code,
     code_results |-> code, images_generated |-> imgs]

FailureResponse(e) ==
    [success |-> FALSE, error |-> Str(e), text |-> <<>>, code_executed |-> <<>>,
     code_results |-> <<>>, images_generated |-> <<>>]

\* the entry of a missing file if it were written without its status
SkippedResultNoStatus(image_file) ==
    [image |-> image_file, reason |-> "file not found"]

\* run_single_test: the entry of an image whose file is missing
SkippedResult(image_file) ==
    [image |-> image_file, status |-> "skipped", reason |-> "file not found"]

\* the entry of a queried image if the status ignored the success flag
QueriedResultAlwaysSuccess(image_file, response, ground_truth) ==
    [image |-> image_file,
     status |-> "success",
     response_text |-> Get(response, "text", <<>>),
     code_executed |-> Get(response, "code_executed", <<>>),
     code_results |-> Get(response, "code_results", <<>>),
     images_generated |-> Len(Get(response, "images_generated", <<>>)),
     ground_truth |-> ground_truth,
     error |-> Get(response, "error", None)]

\* run_single_test: the entry of an image that was queried
QueriedResult(image_file, response, ground_truth) ==
    [image |-> image_file,
     status |-> IF response["success"] THEN "success" ELSE "error",
     response_text |-> Get(response, "text", <<>>),
     code_executed |-> Get(response, "code_executed", <<>>),
     code_results |-> Get(response, "code_results", <<>>),
     images_generated |-> Len(Get(response, "images_generated", <<>>)),
     ground_truth |-> ground_truth,
     error |-> Get(response, "error", None)]

TestRun(test_id, test_name, code_execution, results) ==
    [test_id |-> test_id, test_name |-> test_name,
     code_execution |-> code_execution, results |-> results]

(***************************************************************************)
(* analyze_results                                                         *)
(***************************************************************************)
Min(a, b) == IF a <= b THEN a ELSE b

RECURSIVE Gcd(_, _)
Gcd(a, b) == IF b = 0 THEN a ELSE Gcd(b, a % b)

\* the float a / b, kept as the fraction in lowest terms
Div(a, b) == [tag |-> "frac", num |-> a \div Gcd(a, b), den |-> b \div Gcd(a, b)]
NoAccuracy == [tag |-> "none", num |-> 0, den |-> 0]

\* by_test if the results of a later run of the same test and mode were
\* appended to those of the earlier one
RECURSIVE GroupByTestExtended(_, _, _)
GroupByTestExtended(results, k, by_test) ==
    IF k > Len(results) THEN by_test
    ELSE LET result == results[k]
             test_name == result["test_name"]
             mode == IF result["code_execution"] THEN "code_on" ELSE "code_off"
             known == \E j \in 1..Len(by_test) : by_test[j].test_name = test_name
             added == IF known THEN by_test
                      ELSE Append(by_test, [test_name |-> test_name,
                                            code_on |-> <<>>, code_off |-> <<>>])
             set == [j \in 1..Len(added) |->
                        IF added[j].test_name = test_name
                        THEN [added[j] EXCEPT ![mode] = @ \o result["results"]]
                        ELSE added[j]]
         IN  GroupByTestExtended(results, k + 1, set)

\* by_test: a list of [test_name, code_on, code_off] in order of first
\* appearance; by_test[test_name][mode] = result["results"] overwrites
RECURSIVE GroupByTest(_, _, _)
GroupByTest(results, k, by_test) ==
    IF k > Len(results) THEN by_test
    ELSE LET result == results[k]
             test_name == result["test_name"]
             mode == IF result["code_execution"] THEN "code_on" ELSE "code_off"
             known == \E j \in 1..Len(by_test) : by_test[j].test_name = test_name
             added == IF known THEN by_test
                      ELSE Append(by_test, [test_name |-> test_name,
                                            code_on |-> <<>>, code_off |-> <<>>])
             set == [j \in 1..Len(added) |->
                        IF added[j].test_name = test_name
                        THEN [added[j] EXCEPT ![mode] = result["results"]]
                        ELSE added[j]]
         IN  GroupByTest(results, k + 1, set)

\* mutant: the ground truth read from the CODE_OFF entry
RECURSIVE CountPairsGtFromOff(_, _, _, _)
CountPairsGtFromOff(code_on, code_off, i, c) ==
    IF i > Min(Len(code_on), Len(code_off)) THEN c
    ELSE LET on_result == code_on[i]
             off_result == code_off[i]
             gt == Get(off_result, "ground_truth", None)
             on_extracted == extract_number(Get(on_result, "response_text", <<>>))
             off_extracted == extract_number(Get(off_result, "response_text", <<>>))
         IN  IF gt # None
             THEN CountPairsGtFromOff(code_on, code_off, i + 1,
                    [total_with_gt |-> c.total_with_gt + 1,
                     on_correct |-> c.on_correct + (IF on_extracted = gt THEN 1 ELSE 0),
                     off_correct |-> c.off_correct + (IF off_extracted = gt THEN 1 ELSE 0)])
             ELSE CountPairsGtFromOff(code_on, code_off, i + 1, c)

\* mutant: every CODE_ON entry is visited, a missing partner read as {}
RECURSIVE CountPairsPadded(_, _, _, _)
CountPairsPadded(code_on, code_off, i, c) ==
    IF i > Len(code_on) THEN c
    ELSE LET on_result == code_on[i]
             off_result == IF i <= Len(code_off) THEN code_off[i] ELSE <<>>
             gt == Get(on_result, "ground_truth", None)
             on_extracted == extract_number(Get(on_result, "response_text", <<>>))
             off_extracted == extract_number(Get(off_result, "response_text", <<>>))
         IN  IF gt # None
             THEN CountPairsPadded(code_on, code_off, i + 1,
                    [total_with_gt |-> c.total_with_gt + 1,
                     on_correct |-> c.on_correct + (IF on_extracted = gt THEN 1 ELSE 0),
                     off_correct |-> c.off_correct + (IF off_extracted = gt THEN 1 ELSE 0)])
             ELSE CountPairsPadded(code_on, code_off, i + 1, c)

\* the counters if a pair whose CODE_ON entry has status "error" were left out
RECURSIVE CountPairsWithoutErrors(_, _, _, _)
CountPairsWithoutErrors(code_on, code_off, i, c) ==
    IF i > Min(Len(code_on), Len(code_off)) THEN c
    ELSE LET on_result == code_on[i]
             off_result == code_off[i]
             gt == Get(on_result, "ground_truth", None)
             on_extracted == extract_number(Get(on_result, "response_text", <<>>))
             off_extracted == extract_number(Get(off_result, "response_text", <<>>))
         IN  IF gt # None /\ Get(on_result, "status", "") # "error"
             THEN CountPairsWithoutErrors(code_on, code_off, i + 1,
                    [total_with_gt |-> c.total_with_gt + 1,
                     on_correct |-> c.on_correct + (IF on_extracted = gt THEN 1 ELSE 0),
                     off_correct |-> c.off_correct + (IF off_extracted = gt THEN 1 ELSE 0)])
             ELSE CountPairsWithoutErrors(code_on, code_off, i + 1, c)

\* the loop over zip(code_on, code_off): the counters after pair i
RECURSIVE CountPairs(_, _, _, _)
CountPairs(code_on, code_off, i, c) ==
    IF i > Min(Len(code_on), Len(code_off)) THEN c
    ELSE LET on_result == code_on[i]
             off_result == code_off[i]
             gt == Get(on_result, "ground_truth", None)
             on_extracted == extract_number(Get(on_result, "response_text", <<>>))
             off_extracted == extract_number(Get(off_result, "response_text", <<>>))
         IN  IF gt # None
             THEN CountPairs(code_on, code_off, i + 1,
                    [total_with_gt |-> c.total_with_gt + 1,
                     on_correct |-> c.on_correct + (IF on_extracted = gt THEN 1 ELSE 0),
                     off_correct |-> c.off_correct + (IF off_extracted = gt THEN 1 ELSE 0)])
             ELSE CountPairs(code_on, code_off, i + 1, c)

\* mutant: sum(len(r.get("code_executed", [])) for r in code_on)
RECURSIVE CountCodeBlocks(_)
CountCodeBlocks(rs) ==
    IF rs = <<>> THEN 0
    ELSE Len(Get(Head(rs), "code_executed", <<>>)) + CountCodeBlocks(Tail(rs))

\* sum(1 for r in code_on if r.get("code_executed"))
RECURSIVE CountUsedCode(_)
CountUsedCode(rs) ==
    IF rs = <<>> THEN 0
    ELSE (IF Get(Head(rs), "code_executed", <<>>) # <<>> THEN 1 ELSE 0)
         + CountUsedCode(Tail(rs))

\* sum(r.get("images_generated", 0) for r in code_on)
RECURSIVE SumImages(_)
SumImages(rs) ==
    IF rs = <<>> THEN 0
    ELSE Get(Head(rs), "images_generated", 0) + SumImages(Tail(rs))

\* mutant: an accuracy of 0 when no entry has a ground truth
TestStatsZero(test_modes) ==
    LET code_on == test_modes.code_on
        code_off == test_modes.code_off
        c == CountPairs(code_on, code_off, 1,
                        [total_with_gt |-> 0, on_correct |-> 0, off_correct |-> 0])
    IN  [test_name |-> test_modes.test_name,
         total_images |-> Len(code_on),
         code_on_accuracy |-> IF c.total_with_gt > 0
                              THEN Div(c.on_correct, c.total_with_gt) ELSE Div(0, 1),
         code_off_accuracy |-> IF c.total_with_gt > 0
                               THEN Div(c.off_correct, c.total_with_gt) ELSE Div(0, 1),
         code_blocks_executed |-> CountUsedCode(code_on),
         images_annotated |-> SumImages(code_on),
         has_ground_truth |-> c.total_with_gt > 0]

TestStats(test_modes) ==
    LET code_on == test_modes.code_on
        code_off == test_modes.code_off
        c == CountPairs(code_on, code_off, 1,
                        [total_with_gt |-> 0, on_correct |-> 0, off_correct |-> 0])
    IN  [test_name |-> test_modes.test_name,
         total_images |-> Len(code_on),
         code_on_accuracy |-> IF c.total_with_gt > 0
                              THEN Div(c.on_correct, c.total_with_gt) ELSE NoAccuracy,
         code_off_accuracy |-> IF c.total_with_gt > 0
                               THEN Div(c.off_correct, c.total_with_gt) ELSE NoAccuracy,
         code_blocks_executed |-> CountUsedCode(code_on),
         images_annotated |-> SumImages(code_on),
         has_ground_truth |-> c.total_with_gt > 0]

\* the comparison mapping, one entry per test in insertion order
analyze_results(results) ==
    LET by_test == GroupByTest(results, 1, <<>>)
    IN  [j \in 1..Len(by_test) |-> TestStats(by_test[j])]

(***************************************************************************)
(* generate_report: the generation time, the rows of the summary table and *)
(* the detailed section                                                    *)
(***************************************************************************)
\* a / b with the fraction dropped
RoundDown(a, b) == a \div b

\* round(a / b) to the nearest integer, ties to even
RoundHalfEven(a, b) ==
    LET q == a \div b
        r == a % b
    IN  IF 2 * r < b THEN q
        ELSE IF 2 * r > b THEN q + 1
        ELSE IF q % 2 = 0 THEN q ELSE q + 1

\* f"{x:.0%}" for the fraction x, "N/A" for None
FormatAccuracy(x) ==
    IF x = NoAccuracy THEN "N/A"
    ELSE ToString(RoundHalfEven(100 * x.num, x.den)) \o "%"

SummaryRow(stats) ==
    [test_name |-> stats.test_name,
     off_acc |-> FormatAccuracy(stats.code_off_accuracy),
     on_acc |-> FormatAccuracy(stats.code_on_accuracy),
     code_blocks |-> ToString(stats.code_blocks_executed),
     images |-> ToString(stats.images_annotated)]

SummaryRows(comp) == [j \in 1..Len(comp) |-> SummaryRow(comp[j])]

\* r["response_text"][:200].replace("\n", " ")
Preview(t) ==
    [k \in 1..Min(Len(t), 200) |-> IF t[k] = "\n" THEN " " ELSE t[k]]

\* "  - Ground truth: {gt}, Extracted: {extracted} {correct}"
GroundTruthLine(r) ==
    LET extracted_value == extract_number(Get(r, "response_text", <<>>))
    IN  [line |-> "ground_truth",
         ground_truth |-> r["ground_truth"],
         extracted |-> extracted_value,
         correct |-> IF extracted_value = r["ground_truth"] THEN "match" ELSE "mismatch"]

ResponseLine(r) == [line |-> "response", preview |-> Preview(r["response_text"])]
CodeLine(r) == [line |-> "code", blocks |-> Len(r["code_executed"])]
ImagesLine(r) == [line |-> "images", generated |-> r["images_generated"]]

\* the lines of one result below its heading, each under its own condition
DetailLines(r) ==
    (IF TruthyInt(Get(r, "ground_truth", None)) THEN <<GroundTruthLine(r)>> ELSE <<>>)
    \o (IF Get(r, "response_text", <<>>) # <<>> THEN <<ResponseLine(r)>> ELSE <<>>)
    \o (IF Get(r, "code_executed", <<>>) # <<>> THEN <<CodeLine(r)>> ELSE <<>>)
    \o (IF Get(r, "images_generated", 0) # 0 THEN <<ImagesLine(r)>> ELSE <<>>)

StatusIcon(r) ==
    IF r["status"] = "success" THEN "ok"
    ELSE IF r["status"] = "skipped" THEN "warning" ELSE "cross"

DetailedResult(r) ==
    [image |-> r["image"], status_icon |-> StatusIcon(r), lines |-> DetailLines(r)]

DetailedRun(result) ==
    [test_name |-> result["test_name"],
     mode |-> IF result["code_execution"] THEN "Code Execution ON"
              ELSE "Code Execution OFF",
     results |-> [k \in 1..Len(result["results"]) |->
                    DetailedResult(result["results"][k])]]

DetailedSection(results) == [k \in 1..Len(results) |-> DetailedRun(results[k])]

\* a report whose summary rows carry the time of rendering
generate_report_stamped(results, comp, now) ==
    [generated |-> now,
     summary |-> [j \in 1..Len(comp) |-> [SummaryRow(comp[j]) EXCEPT !.test_name = now]],
     detailed |-> DetailedSection(results)]

\* the report rendered at time now
generate_report(results, comp, now) ==
    [generated |-> now,
     summary |-> SummaryRows(comp),
     detailed |-> DetailedSection(results)]

\* what datetime.now() may show, to the minute
FirstMinute == "2026-01-27 10:00"
NextMinute == "2026-01-27 10:01"
Clock == { FirstMinute, NextMinute }

(***************************************************************************)
(* SpecAnalyze: analyze_results and the summary applied to the two runs of *)
(* one test, each a list of at most MaxLen entries.                        *)
(***************************************************************************)
MaxLen == 3

ImageName(i) == "image_" \o ToString(i) \o ".jpg"

FiveFingers ==
    SuccessResponse(<<"5", " ", "f", "i", "n", "g", "e", "r", "s">>,
                    <<"code_a", "code_b">>, <<"png">>)
Nine == SuccessResponse(<<"9">>, <<>>, <<>>)
TotalThree ==
    SuccessResponse(<<"T", "o", "t", "a", "l", ":", " ", "3">>,
                    <<"code_a">>, <<"png", "png">>)

Skip == [kind |-> "skip"]
Query(response, ground_truth) ==
    [kind |-> "query", response |-> response, ground_truth |-> ground_truth]

\* what happened to one image, and the entry run_single_test records for it
OnOutcomes == { Query(FiveFingers, Some(5)), Query(Nine, Some(8)),
                Query(TotalThree, Some(3)), Query(Nine, None), Skip }
OffOutcomes == { Query(FiveFingers, Some(5)), Skip }

Entry(i, o) ==
    IF o.kind = "skip" THEN SkippedResult(ImageName(i))
    ELSE QueriedResult(ImageName(i), o.response, o.ground_truth)

ResultLists(outcomes) ==
    { [i \in 1..Len(os) |-> Entry(i, os[i])] :
        os \in UNION { [1..n -> outcomes] : n \in 0..MaxLen } }

TestName == "finger_counting"

InitAnalyze ==
    /\ text = <<>>
    /\ extracted = Unset
    /\ all_results \in { <<TestRun(1, TestName, FALSE, off), TestRun(1, TestName, TRUE, on)>> :
                           off \in ResultLists(OffOutcomes), on \in ResultLists(OnOutcomes) }
    /\ comparison = <<>>
    /\ report = <<>>
    /\ TESTS = <<>>
    /\ args = <<>>
    /\ modes = <<>>
    /\ test_ids = <<>>
    /\ mi = 0 /\ ti = 0 /\ image_i = 0
    /\ test_results = <<>>
    /\ env = [now |-> FirstMinute]
    /\ pc = "loaded"

\* the keys analyze_results reads with result[...]
RunKeys == {"test_name", "code_execution", "results"}
HasRunKeys(results) == \A k \in 1..Len(results) : RunKeys \subseteq DOMAIN results[k]

\* the keys generate_report reads with r[...] outside any guard
ResultKeys == {"status", "image"}
HasResultKeys(results) ==
    \A k \in 1..Len(results) :
        \A j \in 1..Len(results[k]["results"]) :
            ResultKeys \subseteq DOMAIN results[k]["results"][j]

\* compare_results.main: comparison = analyze_results(results)
AnalyzeResults ==
    /\ pc = "loaded"
    /\ HasRunKeys(all_results)
    /\ comparison' = analyze_results(all_results)
    /\ pc' = "analyzed"
    /\ UNCHANGED <<extractVars, all_results, report, runVars>>

\* compare_results.main: report = generate_report(results, comparison)
GenerateReport ==
    /\ pc = "analyzed"
    /\ HasResultKeys(all_results)
    /\ report' = generate_report(all_results, comparison, env.now)
    /\ pc' = "reported"
    /\ UNCHANGED <<extractVars, all_results, comparison, runVars>>

NextAnalyze == AnalyzeResults \/ GenerateReport

SpecAnalyze == InitAnalyze /\ [][NextAnalyze]_vars

(***************************************************************************)
(* The two runs of the test, and what the claims count in them             *)
(***************************************************************************)
Analyzed == pc = "analyzed"

OffRun == all_results[1]["results"]
OnRun == all_results[2]["results"]
Paired == 1..Min(Len(OnRun), Len(OffRun))

GroundTruth(r) == Get(r, "ground_truth", None)
Extraction(r) == extract_number(Get(r, "response_text", <<>>))

\* the paired indices whose CODE_ON entry has a ground truth, and those of
\* a set S of indices where a run's extraction equals the CODE_ON ground truth
WithGroundTruth == { i \in Paired : GroundTruth(OnRun[i]) # None }
Correct(run, S) == { i \in S : Extraction(run[i]) = GroundTruth(OnRun[i]) }
OnCorrect == Correct(OnRun, WithGroundTruth)
OffCorrect == Correct(OffRun, WithGroundTruth)

\* the fraction x equals a / b
IsFraction(x, a, b) == x.tag = "frac" /\ x.num * b = a * x.den

(***************************************************************************)
(* C4: with a ground truth on some paired CODE_ON entry, each mode's       *)
(* accuracy is the number of paired, ground-truth-bearing indices where    *)
(* that mode's extraction equals the CODE_ON ground truth, divided by the  *)
(* number of such indices; ground truths [5, 8, 3] with ON extractions     *)
(* [5, 9, 3] give code_on_accuracy = 2/3 for every CODE_OFF run of length 3*)
(***************************************************************************)
AccuracyOver(S, stats) ==
    /\ IsFraction(stats.code_on_accuracy, Cardinality(Correct(OnRun, S)), Cardinality(S))
    /\ IsFraction(stats.code_off_accuracy, Cardinality(Correct(OffRun, S)), Cardinality(S))

C4_AccuracyIsCorrectOverGroundTruth ==
    (Analyzed /\ WithGroundTruth # {}) =>
        /\ AccuracyOver(WithGroundTruth, comparison[1])
        /\ ( /\ Len(OnRun) = 3 /\ Len(OffRun) = 3
             /\ [i \in 1..3 |-> GroundTruth(OnRun[i])] = <<Some(5), Some(8), Some(3)>>
             /\ [i \in 1..3 |-> Extraction(OnRun[i])] = <<Some(5), Some(9), Some(3)>> )
           => comparison[1].code_on_accuracy = [tag |-> "frac", num |-> 2, den |-> 3]

\* C4 witness: the example, against a CODE_OFF run that is right once
C4_Witness ==
    /\ Analyzed
    /\ Len(OnRun) = 3 /\ Len(OffRun) = 3
    /\ [i \in 1..3 |-> GroundTruth(OnRun[i])] = <<Some(5), Some(8), Some(3)>>
    /\ [i \in 1..3 |-> Extraction(OnRun[i])] = <<Some(5), Some(9), Some(3)>>
    /\ comparison[1].code_on_accuracy = Div(2, 3)
    /\ comparison[1].code_off_accuracy = Div(1, 3)

(***************************************************************************)
(* C5: when no entry of the test carries a ground truth both accuracies    *)
(* are None, rendered "N/A", and has_ground_truth is false; with a         *)
(* ground-truth-bearing pair and no correct extraction the accuracy is 0,  *)
(* rendered "0%", and has_ground_truth is true.                            *)
(***************************************************************************)
NoGroundTruthAtAll ==
    /\ \A i \in 1..Len(OnRun) : GroundTruth(OnRun[i]) = None
    /\ \A i \in 1..Len(OffRun) : GroundTruth(OffRun[i]) = None

ZeroWhenNoneCorrect(S, stats) ==
    /\ stats.has_ground_truth = TRUE
    /\ Correct(OnRun, S) = {} => stats.code_on_accuracy = Div(0, 1)
    /\ Correct(OffRun, S) = {} => stats.code_off_accuracy = Div(0, 1)

RenderedZeroWhenNoneCorrect(S, row) ==
    /\ Correct(OnRun, S) = {} => row.on_acc = "0%"
    /\ Correct(OffRun, S) = {} => row.off_acc = "0%"

C5_NoGroundTruthIsNotZero ==
    /\ (Analyzed /\ NoGroundTruthAtAll) =>
          /\ comparison[1].code_on_accuracy = NoAccuracy
          /\ comparison[1].code_off_accuracy = NoAccuracy
          /\ comparison[1].has_ground_truth = FALSE
    /\ (Analyzed /\ WithGroundTruth # {}) =>
          ZeroWhenNoneCorrect(WithGroundTruth, comparison[1])
    /\ pc = "reported" =>
          /\ report.summary[1].on_acc = "N/A" <=> comparison[1].code_on_accuracy = NoAccuracy
          /\ report.summary[1].off_acc = "N/A" <=> comparison[1].code_off_accuracy = NoAccuracy
          /\ WithGroundTruth # {} => RenderedZeroWhenNoneCorrect(WithGroundTruth, report.summary[1])

\* C5 witness: entries in both runs, none with a ground truth, rendered N/A
C5_Witness ==
    /\ pc = "reported"
    /\ Len(OnRun) = 2 /\ Len(OffRun) = 2
    /\ OnRun[1].status = "success" /\ OnRun[2].status = "skipped"
    /\ NoGroundTruthAtAll
    /\ report.summary[1].on_acc = "N/A" /\ report.summary[1].off_acc = "N/A"
    /\ comparison[1].has_ground_truth = FALSE

(***************************************************************************)
(* C6: with runs of unequal length only the indices below the shorter      *)
(* length count: the accuracies are those of the two runs cut to the       *)
(* shorter length, and the analysis returns its one comparison entry.      *)
(***************************************************************************)
CutRuns ==
    LET n == Min(Len(OnRun), Len(OffRun))
    IN  <<TestRun(1, TestName, FALSE, SubSeq(OffRun, 1, n)),
          TestRun(1, TestName, TRUE, SubSeq(OnRun, 1, n))>>

C6_PairingStopsAtShorter ==
    (Analyzed /\ Len(OnRun) # Len(OffRun)) =>
        LET cut == analyze_results(CutRuns)[1]
        IN  /\ Len(comparison) = 1
            /\ comparison[1].code_on_accuracy = cut.code_on_accuracy
            /\ comparison[1].code_off_accuracy = cut.code_off_accuracy
            /\ comparison[1].has_ground_truth = cut.has_ground_truth

\* C6 witness: the CODE_ON run is longer and its last entry, which has no
\* partner, carries a ground truth its text does not match
C6_Witness ==
    /\ Analyzed
    /\ Len(OnRun) = 3 /\ Len(OffRun) = 2
    /\ GroundTruth(OnRun[3]) = Some(8)
    /\ comparison[1].code_on_accuracy = Div(2, 2)

(***************************************************************************)
(* C7: code_blocks_executed is the number of CODE_ON entries that executed *)
(* at least one code block and images_annotated the sum of                 *)
(* images_generated over the CODE_ON entries: the whole CODE_ON run, and   *)
(* no CODE_OFF entry.                                                      *)
(***************************************************************************)
RECURSIVE SumOver(_, _)
SumOver(S, f) ==
    IF S = {} THEN 0
    ELSE LET x == CHOOSE y \in S : TRUE IN f[x] + SumOver(S \ {x}, f)

C7_CodeStatsOverCodeOnOnly ==
    Analyzed =>
        /\ comparison[1].code_blocks_executed =
             Cardinality({ i \in 1..Len(OnRun) :
                             "code_executed" \in DOMAIN OnRun[i]
                             /\ Len(OnRun[i].code_executed) >= 1 })
        /\ comparison[1].images_annotated =
             SumOver(1..Len(OnRun),
                     [i \in 1..Len(OnRun) |->
                        IF "images_generated" \in DOMAIN OnRun[i]
                        THEN OnRun[i].images_generated ELSE 0])

\* C7 witness: a CODE_ON entry without partner that ran two code blocks, and
\* a CODE_OFF entry with code blocks and an image
C7_Witness ==
    /\ Analyzed
    /\ Len(OnRun) = 2 /\ Len(OffRun) = 1
    /\ OnRun[1].status = "skipped"
    /\ OnRun[2].status = "success" /\ Len(OnRun[2].code_executed) = 2
    /\ OffRun[1].status = "success" /\ OffRun[1].images_generated = 1
    /\ comparison[1].code_blocks_executed = 1
    /\ comparison[1].images_annotated = 1

(***************************************************************************)
(* run_experiment.py.  TESTS maps a test id to a test definition; the      *)
(* model runs tables of one test, of at most MaxImages images, whose       *)
(* ground truth is None or a list no longer than the image list.           *)
(***************************************************************************)
MaxImages == 2

NoList == [tag |-> "none", val |-> <<>>]
List(l) == [tag |-> "list", val |-> l]

\* the ground truths of finger_counting
FingerCounts == <<1, 3, 5, 7, 10>>

TestDefinition(n, ground_truth) ==
    [name |-> TestName,
     images |-> [k \in 1..n |-> ImageName(k)],
     ground_truth |-> ground_truth]

TestTables ==
    UNION { { [id \in {1} |-> TestDefinition(n, gt)] :
                gt \in {NoList} \cup { List(SubSeq(FingerCounts, 1, k)) : k \in 0..n } } :
            n \in 1..MaxImages }

\* args.test is None or an integer; the two flags
Arguments ==
    [test : {None, Some(-1), Some(0), Some(1), Some(2)},
     baseline : BOOLEAN, treatment : BOOLEAN]

\* truth value of an optional list
TruthyList(x) == x # NoList /\ x.val # <<>>

\* list(TESTS.keys()): the ids in the order of the table
RECURSIVE Keys(_)
Keys(ids) ==
    IF ids = {} THEN <<>>
    ELSE LET least == CHOOSE x \in ids : \A y \in ids : x <= y
         IN  <<least>> \o Keys(ids \ {least})

\* main: test_ids = [args.test] if args.test else list(TESTS.keys())
TestIds(a, tests) == IF TruthyInt(a.test) THEN <<a.test.val>> ELSE Keys(DOMAIN tests)

\* main: the modes to run
Modes(a) ==
    IF a.baseline THEN <<FALSE>>
    ELSE IF a.treatment THEN <<TRUE>>
    ELSE <<FALSE, TRUE>>

\* the ground truth if a short list were padded with its last element
GroundTruthClamped(test, k) ==
    IF TruthyList(test.ground_truth)
    THEN Some(test.ground_truth.val[Min(k + 1, Len(test.ground_truth.val))])
    ELSE None

\* run_single_test: the ground truth of the image at (0-based) index k
GroundTruthAt(test, k) ==
    IF TruthyList(test.ground_truth) /\ k < Len(test.ground_truth.val)
    THEN Some(test.ground_truth.val[k + 1])
    ELSE None

\* what run_vision_query may return
Responses == { FiveFingers, Nine, FailureResponse("timeout") }

Init ==
    /\ text = <<>>
    /\ extracted = Unset
    /\ all_results = <<>>
    /\ comparison = <<>>
    /\ report = <<>>
    /\ TESTS \in TestTables
    /\ args \in Arguments
    /\ modes = <<>>
    /\ test_ids = <<>>
    /\ mi = 0 /\ ti = 0 /\ image_i = 0
    /\ test_results = <<>>
    /\ env = [runs |-> <<>>, cur |-> <<>>]
    /\ pc = "main"

\* main: test_connection() fails and the program exits
ConnectionFailed ==
    /\ pc = "main"
    /\ pc' = "exit"
    /\ UNCHANGED <<extractVars, all_results, compareVars, runVars>>

\* main: test_connection() succeeds; test_ids and modes are determined
Connected ==
    /\ pc = "main"
    /\ test_ids' = TestIds(args, TESTS)
    /\ modes' = Modes(args)
    /\ mi' = 1 /\ ti' = 1
    /\ pc' = "loop"
    /\ UNCHANGED <<extractVars, all_results, compareVars, TESTS, args, image_i,
                   test_results, env>>

InLoop == pc = "loop" /\ mi <= Len(modes)
test_id == test_ids[ti]
test == TESTS[test_id]
code_exec == modes[mi]

\* the loops' next position after the running test id
NextTest ==
    IF ti < Len(test_ids) THEN ti' = ti + 1 /\ mi' = mi
    ELSE ti' = 1 /\ mi' = mi + 1

\* main: if test_id not in TESTS: continue
UnknownTest ==
    /\ InLoop
    /\ test_id \notin DOMAIN TESTS
    /\ NextTest
    /\ UNCHANGED <<extractVars, all_results, compareVars, TESTS, args, modes,
                   test_ids, image_i, test_results, env, pc>>

\* a missing image file if the loop continued without recording an entry
SkipImageNoEntry ==
    /\ InLoop
    /\ test_id \in DOMAIN TESTS
    /\ image_i < Len(test.images)
    /\ image_i' = image_i + 1
    /\ UNCHANGED <<extractVars, all_results, compareVars, TESTS, args, modes,
                   test_ids, mi, ti, test_results, env, pc>>

\* run_single_test: the image file is missing
SkipImage ==
    /\ InLoop
    /\ test_id \in DOMAIN TESTS
    /\ image_i < Len(test.images)
    /\ test_results' = Append(test_results, SkippedResult(test.images[image_i + 1]))
    /\ env' = [env EXCEPT !.cur = Append(@, [exists |-> FALSE, response |-> <<>>])]
    /\ image_i' = image_i + 1
    /\ UNCHANGED <<extractVars, all_results, compareVars, TESTS, args, modes,
                   test_ids, mi, ti, pc>>

\* run_single_test: the image file exists and run_vision_query returns
QueryImage ==
    /\ InLoop
    /\ test_id \in DOMAIN TESTS
    /\ image_i < Len(test.images)
    /\ \E response \in Responses :
         /\ test_results' = Append(test_results,
                QueriedResult(test.images[image_i + 1], response,
                              GroundTruthAt(test, image_i)))
         /\ env' = [env EXCEPT !.cur = Append(@, [exists |-> TRUE, response |-> response])]
    /\ image_i' = image_i + 1
    /\ UNCHANGED <<extractVars, all_results, compareVars, TESTS, args, modes,
                   test_ids, mi, ti, pc>>

\* run_vision_query: load_image is outside the try, so a file that exists
\* but cannot be read raises through run_single_test and main
LoadImageRaises ==
    /\ InLoop
    /\ test_id \in DOMAIN TESTS
    /\ image_i < Len(test.images)
    /\ pc' = "raised"
    /\ UNCHANGED <<extractVars, all_results, compareVars, runVars>>

\* run_single_test returns; main: all_results.append(result)
FinishTest ==
    /\ InLoop
    /\ test_id \in DOMAIN TESTS
    /\ image_i = Len(test.images)
    /\ all_results' = Append(all_results,
                             TestRun(test_id, test.name, code_exec, test_results))
    /\ env' = [runs |-> Append(env.runs, env.cur), cur |-> <<>>]
    /\ test_results' = <<>>
    /\ image_i' = 0
    /\ NextTest
    /\ UNCHANGED <<extractVars, compareVars, TESTS, args, modes, test_ids, pc>>

\* main: save_results(all_results, ...)
SaveResults ==
    /\ pc = "loop"
    /\ mi > Len(modes)
    /\ pc' = "saved"
    /\ UNCHANGED <<extractVars, all_results, compareVars, runVars>>

Next ==
    \/ ConnectionFailed
    \/ Connected
    \/ UnknownTest
    \/ SkipImage
    \/ QueryImage
    \/ LoadImageRaises
    \/ FinishTest
    \/ SaveResults

Spec == Init /\ [][Next]_vars

(***************************************************************************)
(* Claims on run_single_test and main.  env records, per image, whether    *)
(* the file existed and what run_vision_query returned.                    *)
(***************************************************************************)
\* the entry recorded for an image agrees with what happened to that image
EntryRecords(entry, image_file, outcome) ==
    /\ entry.image = image_file
    /\ IF ~outcome.exists
       THEN /\ entry.status = "skipped"
            /\ "reason" \in DOMAIN entry
            /\ entry.reason # ""
       ELSE IF ~outcome.response.success
       THEN /\ entry.status = "error"
            /\ entry.error = outcome.response.error
       ELSE entry.status = "success"

\* entries 1..Len(entries) are those of the first images, in list order
EntriesRecord(entries, images, outcomes) ==
    /\ Len(entries) = Len(outcomes)
    /\ Len(entries) <= Len(images)
    /\ \A k \in 1..Len(entries) : EntryRecords(entries[k], images[k], outcomes[k])

KnownTestIds == { j \in 1..Len(test_ids) : test_ids[j] \in DOMAIN TESTS }

Statuses(run) == [k \in 1..Len(run.results) |-> run.results[k].status]

\* C8: whatever files are missing and whatever queries fail, every run
\* returned by run_single_test has exactly one entry per image of the test,
\* in list order, "skipped" with a reason for a missing file, "error" with
\* the message of the failed query, "success" otherwise; the entries of the
\* run in progress are those of the images processed so far, and a program
\* that reaches the save has run every known test in every mode.
C8_OneEntryPerImage ==
    /\ Len(env.runs) = Len(all_results)
    /\ \A k \in 1..Len(all_results) :
         /\ Len(all_results[k].results) = Len(TESTS[all_results[k].test_id].images)
         /\ EntriesRecord(all_results[k].results,
                          TESTS[all_results[k].test_id].images, env.runs[k])
    /\ (pc = "loop" /\ mi <= Len(modes) /\ test_ids[ti] \in DOMAIN TESTS)
         => /\ Len(test_results) = image_i
            /\ EntriesRecord(test_results, TESTS[test_ids[ti]].images, env.cur)
    /\ pc = "saved" => Len(all_results) = Len(modes) * Cardinality(KnownTestIds)

\* a saved batch with a run whose first image was skipped and whose second
\* query failed, and a run whose first query failed and whose second succeeded
C8_Witness ==
    /\ pc = "saved"
    /\ \E k \in 1..Len(all_results) : Statuses(all_results[k]) = <<"skipped", "error">>
    /\ \E k \in 1..Len(all_results) : Statuses(all_results[k]) = <<"error", "success">>

Queried(entry) == entry.status # "skipped"

\* the runs of one test in the two modes
ModePairs ==
    { p \in (1..Len(all_results)) \X (1..Len(all_results)) :
        /\ all_results[p[1]].test_name = all_results[p[2]].test_name
        /\ all_results[p[1]].code_execution # all_results[p[2]].code_execution }

\* C9: two runs of the same test in different modes have results of the same
\* length, and at every index the two entries name the same image and, when
\* both were queried, carry the same ground truth.
C9_RunsCorrespondPositionally ==
    \A p \in ModePairs :
        LET a == all_results[p[1]].results
            b == all_results[p[2]].results
        IN  /\ Len(a) = Len(b)
            /\ \A k \in 1..Len(a) :
                 /\ a[k].image = b[k].image
                 /\ (Queried(a[k]) /\ Queried(b[k]))
                      => a[k].ground_truth = b[k].ground_truth

\* both modes were run; the first image was skipped in one mode and failed in
\* the other, the second was queried in both and has a ground truth
C9_Witness ==
    \E p \in ModePairs :
        LET a == all_results[p[1]].results
            b == all_results[p[2]].results
        IN  /\ Len(a) = 2
            /\ a[1].status = "skipped"
            /\ b[1].status = "error"
            /\ a[2].status = "success"
            /\ b[2].status = "error"
            /\ a[2].ground_truth = Some(3)

\* the k-th element of the test's ground-truth list, if there is one
ListedGroundTruth(t, k) ==
    IF t.ground_truth # NoList /\ Len(t.ground_truth.val) >= k
    THEN Some(t.ground_truth.val[k])
    ELSE None

HasGroundTruthField(entry) == "ground_truth" \in DOMAIN entry

\* C10 as stated: the entry of every image carries the element of the
\* ground-truth list at its index when the list has one, and none otherwise
\* (an entry without the field carries none).
C10_AsStated ==
    \A k \in 1..Len(all_results) :
        \A j \in 1..Len(all_results[k].results) :
            Get(all_results[k].results[j], "ground_truth", None)
                = ListedGroundTruth(TESTS[all_results[k].test_id], j)

\* C10: the entry of every queried image carries the element of the
\* ground-truth list at its index when the list has one, and none when the
\* list is missing or shorter; the entry of a skipped image has no
\* ground_truth field; a run over a list shorter than the image list
\* completes with an entry for every image.
C10_GroundTruthOfQueriedImages ==
    \A k \in 1..Len(all_results) :
        /\ Len(all_results[k].results) = Len(TESTS[all_results[k].test_id].images)
        /\ \A j \in 1..Len(all_results[k].results) :
             IF Queried(all_results[k].results[j])
             THEN all_results[k].results[j].ground_truth
                    = ListedGroundTruth(TESTS[all_results[k].test_id], j)
             ELSE ~HasGroundTruthField(all_results[k].results[j])

\* a list of one ground truth for two images, both queried
C10_Witness ==
    /\ TESTS[1].ground_truth = List(<<1>>)
    /\ \E k \in 1..Len(all_results) :
         /\ Len(all_results[k].results) = 2
         /\ Queried(all_results[k].results[1])
         /\ Queried(all_results[k].results[2])
         /\ all_results[k].results[1].ground_truth = Some(1)
         /\ all_results[k].results[2].ground_truth = None

(***************************************************************************)
(* SpecCompare: compare_results.main over the files of outputs/raw.  A     *)
(* results file holds at most MaxRuns runs of one test of one image; the   *)
(* files are written by run_experiment or by hand.                         *)
(***************************************************************************)
MaxRuns == 2

Zero == SuccessResponse(<<"0">>, <<>>, <<>>)
Timeout == FailureResponse("timeout")

CompareOutcomes == { Query(FiveFingers, Some(5)), Query(Nine, Some(5)),
                     Query(Zero, Some(0)), Query(Timeout, Some(5)),
                     Query(Nine, None), Skip }

\* an entry and a run that run_experiment does not write
EntryWithoutStatus == [image |-> ImageName(1)]
RunWithoutResults == [test_id |-> 1, test_name |-> TestName, code_execution |-> TRUE]

CompareLists ==
    {<<>>, <<EntryWithoutStatus>>} \cup { <<Entry(1, o)>> : o \in CompareOutcomes }

CompareRuns ==
    { TestRun(1, TestName, code_execution, rs) :
        code_execution \in BOOLEAN, rs \in CompareLists } \cup {RunWithoutResults}

ResultsFiles == UNION { [1..n -> CompareRuns] : n \in 0..MaxRuns }

\* outputs/raw: the results files, oldest first
RawDirs ==
    {<<>>} \cup { <<f>> : f \in ResultsFiles } \cup { <<<<>>, f>> : f \in ResultsFiles }

InitCompare ==
    /\ text = <<>>
    /\ extracted = Unset
    /\ all_results = <<>>
    /\ comparison = <<>>
    /\ report = <<>>
    /\ TESTS = <<>>
    /\ args = <<>>
    /\ modes = <<>>
    /\ test_ids = <<>>
    /\ mi = 0 /\ ti = 0 /\ image_i = 0
    /\ test_results = <<>>
    /\ env \in { [raw |-> d, now |-> t] : d \in RawDirs, t \in Clock }
    /\ pc = "compare"

\* find_latest_results: no results file, FileNotFoundError leaves main
NoResultsFiles ==
    /\ pc = "compare"
    /\ env.raw = <<>>
    /\ pc' = "file_not_found"
    /\ UNCHANGED <<extractVars, all_results, compareVars, runVars>>

\* find_latest_results and json.load: the newest file is read
LoadResults ==
    /\ pc = "compare"
    /\ env.raw # <<>>
    /\ all_results' = env.raw[Len(env.raw)]
    /\ pc' = "loaded"
    /\ UNCHANGED <<extractVars, compareVars, runVars>>

\* analyze_results: result["test_name"], ["code_execution"] or ["results"]
\* raises KeyError
AnalyzeRaisesKeyError ==
    /\ pc = "loaded"
    /\ ~HasRunKeys(all_results)
    /\ pc' = "key_error"
    /\ UNCHANGED <<extractVars, all_results, compareVars, runVars>>

\* generate_report: r["status"] or r["image"] raises KeyError
ReportRaisesKeyError ==
    /\ pc = "analyzed"
    /\ ~HasResultKeys(all_results)
    /\ pc' = "key_error"
    /\ UNCHANGED <<extractVars, all_results, compareVars, runVars>>

NextCompare ==
    \/ NoResultsFiles
    \/ LoadResults
    \/ AnalyzeResults
    \/ AnalyzeRaisesKeyError
    \/ GenerateReport
    \/ ReportRaisesKeyError

SpecCompare == InitCompare /\ [][NextCompare]_vars

(***************************************************************************)
(* Claims on generate_report and compare_results.main                      *)
(***************************************************************************)
Reported == pc = "reported"

\* the ground-truth lines rendered for entry j of run k
GroundTruthLines(k, j) ==
    LET lines == report.detailed[k].results[j].lines
    IN  { x \in 1..Len(lines) : lines[x].line = "ground_truth" }

\* C11: in the detailed section every result whose ground truth is present,
\* whatever the integer, has one line with the ground truth, the value
\* extracted from its response text and a match marker exactly when the two
\* are equal; a result without ground truth has no such line.
C11_AsStated ==
    Reported =>
        \A k \in 1..Len(all_results) :
            \A j \in 1..Len(all_results[k].results) :
                LET r == all_results[k].results[j]
                    gt == Get(r, "ground_truth", None)
                    lines == report.detailed[k].results[j].lines
                IN  IF gt = None THEN GroundTruthLines(k, j) = {}
                    ELSE /\ Cardinality(GroundTruthLines(k, j)) = 1
                         /\ \A x \in GroundTruthLines(k, j) :
                              /\ lines[x].ground_truth = gt
                              /\ lines[x].extracted = Expected(Lower(r.response_text))
                              /\ lines[x].correct = "match"
                                   <=> Expected(Lower(r.response_text)) = gt

\* the whole percentage nearest to the fraction x
IsNearestPercent(p, x) ==
    /\ 2 * (100 * x.num - p * x.den) <= x.den
    /\ 2 * (p * x.den - 100 * x.num) <= x.den

Renders(str, x) ==
    IF x = NoAccuracy THEN str = "N/A"
    ELSE \E p \in 0..100 : str = ToString(p) \o "%" /\ IsNearestPercent(p, x)

\* C12: each accuracy of a summary row is the nearest whole percentage
\* followed by "%", without decimals, and "N/A" when the accuracy is absent;
\* 0.8 renders as "80%", 2/3 as "67%" and 0 as "0%", not as "N/A".
C12_WholePercentOrNA ==
    /\ FormatAccuracy(Div(4, 5)) = "80%"
    /\ FormatAccuracy(Div(2, 3)) = "67%"
    /\ FormatAccuracy(Div(0, 1)) = "0%"
    /\ FormatAccuracy(NoAccuracy) = "N/A"
    /\ Reported =>
         \A k \in 1..Len(comparison) :
            /\ Renders(report.summary[k].on_acc, comparison[k].code_on_accuracy)
            /\ Renders(report.summary[k].off_acc, comparison[k].code_off_accuracy)

\* two of three correct with code execution, none of three without
C12_Witness ==
    /\ Reported
    /\ comparison[1].code_on_accuracy = Div(2, 3)
    /\ comparison[1].code_off_accuracy = Div(0, 3)
    /\ report.summary[1].on_acc = "67%"
    /\ report.summary[1].off_acc = "0%"

\* C13: the report rendered from the same results and comparison at any
\* other time has the same summary rows and the same detailed section; only
\* the time of generation differs.
C13_SameReportButForTheTime ==
    Reported =>
        \A now \in Clock :
            LET again == generate_report(all_results, comparison, now)
            IN  /\ again.generated = now
                /\ again.summary = report.summary
                /\ again.detailed = report.detailed

\* a report of two runs rendered at the later time
C13_Witness ==
    /\ Reported
    /\ report.generated = NextMinute
    /\ Len(report.summary) = 1
    /\ Len(report.detailed) = 2
    /\ report.detailed[1].results # <<>>
    /\ report.detailed[1].results[1].lines # <<>>

\* C14: no report is produced when there is nothing to process, whether no
\* results file exists or the loaded results hold no run.
C14_AsStated ==
    /\ env.raw = <<>> => pc \in {"compare", "file_not_found"}
    /\ Reported => all_results # <<>>

\* the entries and runs run_experiment writes
WrittenResponses == { FiveFingers, Nine, Zero, Timeout }

IsWrittenResult(r) ==
    /\ "image" \in DOMAIN r
    /\ \/ r = SkippedResult(r.image)
       \/ /\ "ground_truth" \in DOMAIN r
          /\ \E response \in WrittenResponses :
                r = QueriedResult(r.image, response, r.ground_truth)

IsWrittenRun(run) ==
    /\ DOMAIN run = {"test_id", "test_name", "code_execution", "results"}
    /\ \A j \in 1..Len(run.results) : IsWrittenResult(run.results[j])

WrittenByRunExperiment(results) ==
    \A k \in 1..Len(results) : IsWrittenRun(results[k])

\* C15: for a results list written by run_experiment, of success, error and
\* skipped entries, every key read without a default is present and neither
\* analyze_results nor generate_report raises KeyError.
C15_WrittenResultsAreReadable ==
    (pc # "compare" /\ WrittenByRunExperiment(all_results)) =>
        /\ HasRunKeys(all_results)
        /\ HasResultKeys(all_results)
        /\ pc # "key_error"

\* a report of a skipped entry and an error entry
C15_Witness ==
    /\ Reported
    /\ Len(all_results) = 2
    /\ all_results[1].results = <<SkippedResult(ImageName(1))>>
    /\ all_results[2].results = <<QueriedResult(ImageName(1), Timeout, Some(5))>>

(***************************************************************************)
(* Claims on the selection of tests in run_experiment.main                 *)
(***************************************************************************)
\* C16: with --test N the saved results hold runs of test N only, and no run
\* at all when N is not an id of TESTS, for every integer N.
C16_AsStated ==
    (pc = "saved" /\ args.test # None) =>
        /\ \A k \in 1..Len(all_results) : all_results[k].test_id = args.test.val
        /\ args.test.val \notin DOMAIN TESTS => all_results = <<>>

(***************************************************************************)
(* Claims on the statistics of analyze_results and on patterns 6 and 7     *)
(***************************************************************************)
\* C17: code_blocks_executed is the sum, over the CODE_ON entries, of the
\* number of code fragments executed for the entry.
C17_AsStated ==
    Analyzed =>
        comparison[1].code_blocks_executed =
            SumOver(1..Len(OnRun),
                    [i \in 1..Len(OnRun) |->
                       IF "code_executed" \in DOMAIN OnRun[i]
                       THEN Len(OnRun[i].code_executed) ELSE 0])

\* the word, any number of colons and whitespace (none included), a numeral
WordOptionalSepNumberOcc(t, nums, w) ==
    { <<sn[1], sn[2][1], sn[2][2]>> : sn \in
        { x \in WordStarts(t, w) \X nums :
            /\ x[1] + Len(w) <= x[2][1]
            /\ AllIn(t, x[1] + Len(w), x[2][1] - 1, "sep") } }

\* C18: when no pattern of higher priority matches, "count" (then "total")
\* followed by zero or more colons and whitespace and a numeral N yields N.
C18_AsStated ==
    Done =>
        LET t == Lower(text)
            nums == Numerals(t)
            counts == WordOptionalSepNumberOcc(t, nums, Word(6))
            totals == WordOptionalSepNumberOcc(t, nums, Word(7))
        IN  (\A k \in 1..5 : OccIn(t, nums, k) = {}) =>
                /\ counts # {} => extracted = Some(NumberAt(t, Leftmost(counts)))
                /\ (counts = {} /\ totals # {})
                     => extracted = Some(NumberAt(t, Leftmost(totals)))

\* C19: the accuracies are both absent or both present, absent exactly when
\* has_ground_truth is false; a present accuracy lies in [0, 1]; total_images
\* is the length of the CODE_ON sequence and code_blocks_executed is at most
\* total_images.
InUnitInterval(x) == x.tag = "frac" /\ 0 <= x.num /\ x.num <= x.den /\ x.den > 0

C19_StatsAreConsistent ==
    Analyzed =>
        \A k \in 1..Len(comparison) :
            LET stats == comparison[k]
            IN  /\ stats.code_on_accuracy = NoAccuracy <=> ~stats.has_ground_truth
                /\ stats.code_off_accuracy = NoAccuracy <=> ~stats.has_ground_truth
                /\ stats.has_ground_truth =>
                     /\ InUnitInterval(stats.code_on_accuracy)
                     /\ InUnitInterval(stats.code_off_accuracy)
                /\ stats.total_images = Len(OnRun)
                /\ 0 <= stats.code_blocks_executed
                /\ stats.code_blocks_executed <= stats.total_images

\* three CODE_ON entries that all ran code and are all correct, against
\* three skipped CODE_OFF entries
C19_Witness ==
    /\ Analyzed
    /\ Len(OnRun) = 3 /\ Len(OffRun) = 3
    /\ comparison[1].has_ground_truth
    /\ comparison[1].code_on_accuracy = Div(1, 1)
    /\ comparison[1].code_off_accuracy = Div(0, 1)
    /\ comparison[1].code_blocks_executed = 3
    /\ comparison[1].total_images = 3

Compared == pc \in {"analyzed", "reported"}

\* the runs of all_results in mode m
RunsInMode(m) == { k \in 1..Len(all_results) : all_results[k].code_execution = m }

\* the results of the last run in mode m, none if there is no such run
LastResults(m) ==
    IF RunsInMode(m) = {} THEN <<>>
    ELSE all_results[CHOOSE k \in RunsInMode(m) : \A h \in RunsInMode(m) : h <= k].results

\* C20: with runs in one mode only, both accuracies are absent and
\* has_ground_truth is false, whatever ground truths the entries carry; with
\* CODE_OFF runs only, total_images, code_blocks_executed and
\* images_annotated are 0; of several runs of the same test and mode only
\* the last one counts.
C20_OneModeAndDuplicates ==
    (Compared /\ all_results # <<>>) =>
        /\ Len(comparison) = 1
        /\ (RunsInMode(TRUE) = {} \/ RunsInMode(FALSE) = {}) =>
             /\ comparison[1].code_on_accuracy = NoAccuracy
             /\ comparison[1].code_off_accuracy = NoAccuracy
             /\ ~comparison[1].has_ground_truth
        /\ RunsInMode(TRUE) = {} =>
             /\ comparison[1].total_images = 0
             /\ comparison[1].code_blocks_executed = 0
             /\ comparison[1].images_annotated = 0
        /\ comparison = analyze_results(<<TestRun(1, TestName, FALSE, LastResults(FALSE)),
                                          TestRun(1, TestName, TRUE, LastResults(TRUE))>>)

\* two CODE_ON runs and no CODE_OFF run: the first skipped its image, the
\* last answered it correctly with code
C20_Witness ==
    /\ Compared
    /\ Len(all_results) = 2
    /\ RunsInMode(FALSE) = {}
    /\ all_results[1].results = <<SkippedResult(ImageName(1))>>
    /\ all_results[2].results = <<QueriedResult(ImageName(1), FiveFingers, Some(5))>>
    /\ comparison[1].total_images = 1
    /\ comparison[1].code_blocks_executed = 1
    /\ comparison[1].code_on_accuracy = NoAccuracy

(***************************************************************************)
(* Claims on error and skipped entries in analyze_results                  *)
(***************************************************************************)
\* the paired indices of the last CODE_ON and CODE_OFF runs
LastPaired == 1..Min(Len(LastResults(TRUE)), Len(LastResults(FALSE)))

StatusAt(m, i) == Get(LastResults(m)[i], "status", "")

\* the paired indices that count: the CODE_ON entry is not skipped and
\* carries a ground truth, whatever its status otherwise
Counted ==
    { i \in LastPaired :
        /\ StatusAt(TRUE, i) # "skipped"
        /\ GroundTruth(LastResults(TRUE)[i]) # None }

\* the counted indices that mode m answers correctly: its response text is
\* not empty and the number in it is the CODE_ON ground truth
CorrectIn(m) ==
    { i \in Counted :
        LET response_text == Get(LastResults(m)[i], "response_text", <<>>)
        IN  /\ response_text # <<>>
            /\ Expected(Lower(response_text)) = GroundTruth(LastResults(TRUE)[i]) }

\* C21: a paired index whose CODE_ON entry has status "error" and a ground
\* truth counts in the denominator of both accuracies, and is incorrect for
\* a mode whose response text is empty; a paired index whose CODE_ON entry
\* is skipped does not count, whatever the CODE_OFF entry at that index
\* holds.
C21_ErrorsCountSkipsDoNot ==
    (Compared /\ all_results # <<>>) =>
        /\ \A i \in LastPaired :
             /\ (StatusAt(TRUE, i) = "error"
                   /\ GroundTruth(LastResults(TRUE)[i]) # None) => i \in Counted
             /\ StatusAt(TRUE, i) = "skipped" => i \notin Counted
        /\ comparison[1].has_ground_truth <=> Counted # {}
        /\ IF Counted = {}
           THEN /\ comparison[1].code_on_accuracy = NoAccuracy
                /\ comparison[1].code_off_accuracy = NoAccuracy
           ELSE /\ IsFraction(comparison[1].code_on_accuracy,
                              Cardinality(CorrectIn(TRUE)), Cardinality(Counted))
                /\ IsFraction(comparison[1].code_off_accuracy,
                              Cardinality(CorrectIn(FALSE)), Cardinality(Counted))

\* the CODE_ON query of an image with ground truth 5 failed, the CODE_OFF
\* query answered "5 fingers": 0 of 1 with code execution, 1 of 1 without
C21_Witness ==
    /\ Compared
    /\ Len(all_results) = 2
    /\ all_results[1] = TestRun(1, TestName, FALSE,
                                <<QueriedResult(ImageName(1), FiveFingers, Some(5))>>)
    /\ all_results[2] = TestRun(1, TestName, TRUE,
                                <<QueriedResult(ImageName(1), Timeout, Some(5))>>)
    /\ comparison[1].has_ground_truth
    /\ comparison[1].code_on_accuracy = Div(0, 1)
    /\ comparison[1].code_off_accuracy = Div(1, 1)

====
